---- MODULE Spec2Model ----
(***************************************************************************)
(* Bounded-duration child process supervision, as implemented by           *)
(*   code/child_process_wait_or_kill/src/main.rs  (wait_or_kill)           *)
(*   code/child_process/src/main.rs               (sleep-then-kill main)   *)
(*                                                                         *)
(* wait_or_kill spawns a child with a piped stdout, starts a timer thread  *)
(* (sleep(max); kill().expect(..); wait()) and drains the pipe on the      *)
(* calling thread (wait_on_output) before joining the timer thread.        *)
(* child_process spawns a child with inherited stdout, sleeps 5 s and      *)
(* kills it; it never waits.                                               *)
(*   code/call_thumbnailer_async/src/main.rs                               *)
(* awaits tokio's timeout(1 s, Command::output()) and prints the child's   *)
(* stdout when the await yields Ok(Ok(output)).                            *)
(*                                                                         *)
(* Threads are modelled by program counters; the child, the pipe and the   *)
(* clock are the environment.  Results of OS calls that can fail (spawn,   *)
(* read, kill) are nondeterministic.                                       *)
(***************************************************************************)
EXTENDS Naturals, Sequences, FiniteSets

\* ---- bounds of the model ------------------------------------------------
\* capacity of the OS pipe, in bytes
PipeCap == 3
\* size of the read buffer `buf` of wait_on_output ([0; 1024] in the source),
\* scaled so that a full pipe holds more than one buffer
BufSize == 2
\* largest deadline `max` handed to wait_or_kill, in clock ticks
MaxDeadline == 2
\* longest output a child produces: more than the pipe holds
MaxOut == PipeCap + 2

\* ---- program constants --------------------------------------------------
\* thread::sleep(Duration::from_secs(5)) of child_process
CPSleepSecs == 5
\* timeout(Duration::from_secs(1), future) of call_thumbnailer_async
AsyncTimeoutSecs == 1

Progs == {"wait_or_kill", "child_process", "call_thumbnailer_async"}
\* the two programs built on std::process and threads
ThreadProgs == {"wait_or_kill", "child_process"}
ExitCodes == {"exit0", "exit1"}
NoPlan == [n |-> 0, exit |-> "never"]

VARIABLES
  prog,        \* which program runs
  max,         \* the deadline: `max` of wait_or_kill / the 5 s of child_process
  pcMain,      \* position of the calling thread
  pcTimer,     \* position of the timer thread of wait_or_kill
  elapsed,     \* clock ticks slept so far by the sleeping thread
  child,       \* "none" | "running" | "zombie" | "reaped"
  childStatus, \* how the child ended: an exit code, "SIGKILL", "SIGPIPE", or "none"
  plan,        \* the child's program: bytes it writes, then its exit code or "never"
  written,     \* bytes the child has written to its stdout so far
  pipe,        \* bytes in the pipe, written and not yet read
  readerOpen,  \* the ChildStdout `out` exists (read end of the pipe is open)
  buf,         \* the read buffer of wait_on_output
  chunks,      \* the chunks wait_on_output reported, in order
  drainEOF,    \* wait_on_output saw read() return Ok(0)
  readError,   \* wait_on_output saw read() return Err
  spawnCalls,  \* calls of Command::spawn
  killCalls,   \* calls of Child::kill
  killFailed,  \* a kill() returned Err
  waitCalls,   \* calls of Child::wait
  waitResult,  \* status returned by wait(), "none" before
  aliveAtD,    \* the child was running when the deadline elapsed
  exitBeforeD, \* the child exited by itself before the deadline elapsed
  awaited,     \* call_thumbnailer_async: value of timeout(..).await:
               \* "pending" | "elapsed" (Err) | "ok" (Ok(Ok)) | "err" (Ok(Err))
  printed      \* call_thumbnailer_async: "Process returned: .." was printed

vars == <<prog, max, pcMain, pcTimer, elapsed, child, childStatus, plan, written,
          pipe, readerOpen, buf, chunks, drainEOF, readError, spawnCalls,
          killCalls, killFailed, waitCalls, waitResult, aliveAtD, exitBeforeD,
          awaited, printed>>

\* state of the await of call_thumbnailer_async
asyncVars == <<awaited, printed>>

\* ---- helpers --------------------------------------------------------------
Min(a, b) == IF a <= b THEN a ELSE b

IsPrefix(s, t) == /\ Len(s) <= Len(t)
                  /\ \A i \in 1..Len(s) : s[i] = t[i]

RECURSIVE Flatten(_)
Flatten(ss) == IF ss = <<>> THEN <<>> ELSE Head(ss) \o Flatten(Tail(ss))

\* the k-th byte a child produces; bytes are pairwise distinct so that a
\* duplicated, skipped or reordered byte is visible
StreamByte(k) == k
FullStream(n) == [k \in 1..n |-> StreamByte(k)]

\* everything the drain has reported so far
Captured == Flatten(chunks)

DeadlineElapsed == elapsed >= max

Piped == prog = "wait_or_kill"

\* the thread that is inside thread::sleep
Sleeping == \/ prog = "wait_or_kill" /\ pcTimer = "sleep"
            \/ prog = "child_process" /\ pcMain = "sleep"
            \/ prog = "call_thumbnailer_async" /\ pcMain = "await"

MainExited == pcMain \in {"returned", "panicked"}

\* the child is stuck in write(): pipe full and still open at the read end
ChildBlocked == /\ child = "running" /\ Piped
                /\ Len(written) < plan.n
                /\ readerOpen /\ Len(pipe) = PipeCap

\* the run went down the kill path ("Killing child process" printed, kill issued)
timed_out == killCalls > 0

\* how the call ended, as far as the caller can tell
outcome == IF pcMain = "returned" THEN "Completed"
           ELSE IF pcMain = "panicked" /\ child = "none" THEN "SpawnFailed"
           ELSE IF pcMain = "panicked" THEN "KillFailed"
           ELSE "Running"

\* the terminal states the run state machine is stated over (C11), and the
\* state of a supervision run: Running until the call has ended, then how
\* it ended; a call that ended in the panic of a failed kill is none of
\* Exited, Killed, SpawnFailed, ReadFailed
TerminalStates == {"Exited", "Killed", "SpawnFailed", "ReadFailed"}

runState == IF ~MainExited THEN "Running"
            ELSE IF child = "none" THEN "SpawnFailed"
            ELSE IF pcMain = "panicked" THEN "KillFailed"
            ELSE IF childStatus = "SIGKILL" THEN "Killed"
            ELSE "Exited"

\* the drain loop of wait_on_output has ended
DrainFinished == drainEOF \/ readError

\* ---- initial state --------------------------------------------------------
Init ==
  /\ prog \in Progs
  /\ max \in IF prog = "wait_or_kill" THEN 0..MaxDeadline
             ELSE IF prog = "child_process" THEN {CPSleepSecs}
             ELSE {AsyncTimeoutSecs}
  /\ pcMain = "spawn"
  /\ pcTimer = "none"
  /\ elapsed = 0
  /\ child = "none"
  /\ childStatus = "none"
  /\ plan = NoPlan
  /\ written = <<>>
  /\ pipe = <<>>
  /\ readerOpen = FALSE
  /\ buf = [i \in 1..BufSize |-> 0]
  /\ chunks = <<>>
  /\ drainEOF = FALSE
  /\ readError = FALSE
  /\ spawnCalls = 0
  /\ killCalls = 0
  /\ killFailed = FALSE
  /\ waitCalls = 0
  /\ waitResult = "none"
  /\ aliveAtD = FALSE
  /\ exitBeforeD = FALSE
  /\ awaited = "pending"
  /\ printed = FALSE

\* ---- the calling thread ---------------------------------------------------
\* variant of Spawn: the Err of spawn() is dropped and the caller carries on
Spawn_IgnoreError ==
  /\ UNCHANGED asyncVars
  /\ prog \in ThreadProgs /\ pcMain = "spawn"
  /\ spawnCalls' = spawnCalls + 1
  /\ \/ /\ \E n \in 0..MaxOut, e \in ExitCodes \cup {"never"} :
              plan' = [n |-> n, exit |-> e]
        /\ child' = "running"
        /\ readerOpen' = Piped
        /\ aliveAtD' = (max = 0)
        /\ pcMain' = IF Piped THEN "start_timer" ELSE "sleep"
     \/ /\ pcMain' = IF Piped THEN "start_timer" ELSE "sleep"
        /\ UNCHANGED <<plan, child, readerOpen, aliveAtD>>
  /\ UNCHANGED <<prog, max, pcTimer, elapsed, childStatus, written, pipe, buf,
                 chunks, drainEOF, readError, killCalls, killFailed,
                 waitCalls, waitResult, exitBeforeD>>

\* cmd.stdout(piped).spawn().expect(..); child.stdout.take().expect(..)
\* (child_process: Command::new(..).spawn().expect(..), stdout inherited)
Spawn ==
  /\ UNCHANGED asyncVars
  /\ prog \in ThreadProgs /\ pcMain = "spawn"
  /\ spawnCalls' = spawnCalls + 1
  /\ \/ \* the OS created the process
        /\ \E n \in 0..MaxOut, e \in ExitCodes \cup {"never"} :
              plan' = [n |-> n, exit |-> e]
        /\ child' = "running"
        /\ readerOpen' = Piped
        /\ aliveAtD' = (max = 0)
        /\ pcMain' = IF Piped THEN "start_timer" ELSE "sleep"
     \/ \* spawn returned Err: expect() panics
        /\ pcMain' = "panicked"
        /\ UNCHANGED <<plan, child, readerOpen, aliveAtD>>
  /\ UNCHANGED <<prog, max, pcTimer, elapsed, childStatus, written, pipe, buf,
                 chunks, drainEOF, readError, killCalls, killFailed,
                 waitCalls, waitResult, exitBeforeD>>

\* let h = thread::spawn(move || ..)
StartTimer ==
  /\ UNCHANGED asyncVars
  /\ prog = "wait_or_kill" /\ pcMain = "start_timer"
  /\ pcTimer' = "sleep"
  /\ pcMain' = "drain"
  /\ UNCHANGED <<prog, max, elapsed, child, childStatus, plan, written, pipe,
                 readerOpen, buf, chunks, drainEOF, readError, spawnCalls,
                 killCalls, killFailed, waitCalls, waitResult, aliveAtD, exitBeforeD>>

\* variant of Chunk: the whole buffer is reported, stale bytes included
Chunk_WholeBuf(b, n) == b

\* the slice wait_on_output reports after a read of n bytes: buf[..n]
Chunk(b, n) == SubSeq(b, 1, n)

\* one iteration of the loop of wait_on_output whose read returns Ok(n), n > 0
DrainRead ==
  /\ UNCHANGED asyncVars
  /\ prog = "wait_or_kill" /\ pcMain = "drain"
  /\ pipe # <<>>
  /\ \E n \in 1..Min(BufSize, Len(pipe)) :
       /\ buf' = [i \in 1..BufSize |-> IF i <= n THEN pipe[i] ELSE buf[i]]
       /\ chunks' = Append(chunks, Chunk(buf', n))
       /\ pipe' = SubSeq(pipe, n + 1, Len(pipe))
  /\ UNCHANGED <<prog, max, pcMain, pcTimer, elapsed, child, childStatus, plan,
                 written, readerOpen, drainEOF, readError, spawnCalls, killCalls,
                 killFailed, waitCalls, waitResult, aliveAtD, exitBeforeD>>

\* read returns Ok(0): every write end is closed and the pipe is empty.
\* The loop breaks, wait_on_output returns and drops `out`.
DrainEOF ==
  /\ UNCHANGED asyncVars
  /\ prog = "wait_or_kill" /\ pcMain = "drain"
  /\ pipe = <<>> /\ child # "running"
  /\ drainEOF' = TRUE
  /\ readerOpen' = FALSE
  /\ pcMain' = "join"
  /\ UNCHANGED <<prog, max, pcTimer, elapsed, child, childStatus, plan, written,
                 pipe, buf, chunks, readError, spawnCalls, killCalls, killFailed,
                 waitCalls, waitResult, aliveAtD, exitBeforeD>>

\* variant of DrainError: an Err of read() is skipped and the loop reads again
DrainError_Retry ==
  /\ UNCHANGED asyncVars
  /\ prog = "wait_or_kill" /\ pcMain = "drain"
  /\ readError' = TRUE
  /\ UNCHANGED <<prog, max, pcMain, pcTimer, elapsed, child, childStatus, plan,
                 written, pipe, readerOpen, buf, chunks, drainEOF, spawnCalls,
                 killCalls, killFailed, waitCalls, waitResult, aliveAtD, exitBeforeD>>

\* read returns Err: `while let Ok(n)` ends the loop, wait_on_output returns
\* and drops `out`; unread bytes are discarded with the pipe
DrainError ==
  /\ UNCHANGED asyncVars
  /\ prog = "wait_or_kill" /\ pcMain = "drain"
  /\ readError' = TRUE
  /\ readerOpen' = FALSE
  /\ pipe' = <<>>
  /\ pcMain' = "join"
  /\ UNCHANGED <<prog, max, pcTimer, elapsed, child, childStatus, plan, written,
                 buf, chunks, drainEOF, spawnCalls, killCalls, killFailed,
                 waitCalls, waitResult, aliveAtD, exitBeforeD>>

\* variant of MainJoin: after a drain that ended in end-of-stream the caller
\* returns at once, leaving the timer thread behind
MainJoin_EarlyOnEOF ==
  /\ UNCHANGED asyncVars
  /\ prog = "wait_or_kill" /\ pcMain = "join"
  /\ drainEOF \/ pcTimer \in {"done", "panicked"}
  /\ pcMain' = IF pcTimer = "panicked" THEN "panicked" ELSE "returned"
  /\ UNCHANGED <<prog, max, pcTimer, elapsed, child, childStatus, plan, written,
                 pipe, readerOpen, buf, chunks, drainEOF, readError, spawnCalls,
                 killCalls, killFailed, waitCalls, waitResult, aliveAtD, exitBeforeD>>

\* variant of MainJoin: the caller does not wait for the timer thread
MainJoin_NoWait ==
  /\ UNCHANGED asyncVars
  /\ prog = "wait_or_kill" /\ pcMain = "join"
  /\ pcMain' = IF pcTimer = "panicked" THEN "panicked" ELSE "returned"
  /\ UNCHANGED <<prog, max, pcTimer, elapsed, child, childStatus, plan, written,
                 pipe, readerOpen, buf, chunks, drainEOF, readError, spawnCalls,
                 killCalls, killFailed, waitCalls, waitResult, aliveAtD, exitBeforeD>>

\* h.join().expect("join fail"): blocks until the timer thread has finished;
\* Err when that thread panicked
MainJoin ==
  /\ UNCHANGED asyncVars
  /\ prog = "wait_or_kill" /\ pcMain = "join"
  /\ pcTimer \in {"done", "panicked"}
  /\ pcMain' = IF pcTimer = "done" THEN "returned" ELSE "panicked"
  /\ UNCHANGED <<prog, max, pcTimer, elapsed, child, childStatus, plan, written,
                 pipe, readerOpen, buf, chunks, drainEOF, readError, spawnCalls,
                 killCalls, killFailed, waitCalls, waitResult, aliveAtD, exitBeforeD>>

\* ---- the clock ------------------------------------------------------------
\* one tick of thread::sleep
Tick ==
  /\ UNCHANGED asyncVars
  /\ Sleeping /\ elapsed < max
  /\ elapsed' = elapsed + 1
  /\ aliveAtD' = (aliveAtD \/ (elapsed' = max /\ child = "running"))
  /\ UNCHANGED <<prog, max, pcMain, pcTimer, child, childStatus, plan, written,
                 pipe, readerOpen, buf, chunks, drainEOF, readError, spawnCalls,
                 killCalls, killFailed, waitCalls, waitResult, exitBeforeD>>

\* ---- the timer thread of wait_or_kill -------------------------------------
\* variant of TimerWake: the thread does not sleep for the whole of `max`
TimerWake_NoSleep ==
  /\ UNCHANGED asyncVars
  /\ prog = "wait_or_kill" /\ pcTimer = "sleep"
  /\ pcTimer' = "kill"
  /\ UNCHANGED <<prog, max, pcMain, elapsed, child, childStatus, plan, written,
                 pipe, readerOpen, buf, chunks, drainEOF, readError, spawnCalls,
                 killCalls, killFailed, waitCalls, waitResult, aliveAtD, exitBeforeD>>

\* thread::sleep(max) returns; println!("Killing child process")
TimerWake ==
  /\ UNCHANGED asyncVars
  /\ prog = "wait_or_kill" /\ pcTimer = "sleep"
  /\ DeadlineElapsed
  /\ pcTimer' = "kill"
  /\ UNCHANGED <<prog, max, pcMain, elapsed, child, childStatus, plan, written,
                 pipe, readerOpen, buf, chunks, drainEOF, readError, spawnCalls,
                 killCalls, killFailed, waitCalls, waitResult, aliveAtD, exitBeforeD>>

\* effect of Child::kill on the process: Ok on a running child ends it with
\* SIGKILL, Ok on a child that already exited changes nothing, Err changes nothing
KillEffect(ok) ==
  /\ killCalls' = killCalls + 1
  /\ killFailed' = (killFailed \/ ~ok)
  /\ IF ok /\ child = "running"
       THEN child' = "zombie" /\ childStatus' = "SIGKILL"
       ELSE UNCHANGED <<child, childStatus>>

\* variant of TimerKill: the kill is only issued once the drain has finished
\* (deadline handled after the read loop instead of beside it)
TimerKill_AfterDrain ==
  /\ UNCHANGED asyncVars
  /\ prog = "wait_or_kill" /\ pcTimer = "kill"
  /\ pcMain = "join"
  /\ \E ok \in BOOLEAN :
       /\ KillEffect(ok)
       /\ pcTimer' = IF ok THEN "wait" ELSE "panicked"
  /\ UNCHANGED <<prog, max, pcMain, elapsed, plan, written, pipe, readerOpen,
                 buf, chunks, drainEOF, readError, spawnCalls, waitCalls,
                 waitResult, aliveAtD, exitBeforeD>>

\* child.kill().expect("Cannot kill child process")
TimerKill ==
  /\ UNCHANGED asyncVars
  /\ prog = "wait_or_kill" /\ pcTimer = "kill"
  /\ \E ok \in BOOLEAN :
       /\ KillEffect(ok)
       /\ pcTimer' = IF ok THEN "wait" ELSE "panicked"
  /\ UNCHANGED <<prog, max, pcMain, elapsed, plan, written, pipe, readerOpen,
                 buf, chunks, drainEOF, readError, spawnCalls, waitCalls,
                 waitResult, aliveAtD, exitBeforeD>>

\* variant of TimerWait: wait() is called in place of kill(), before it
TimerWait_BeforeKill ==
  /\ UNCHANGED asyncVars
  /\ prog = "wait_or_kill" /\ pcTimer \in {"kill", "wait"}
  /\ child = "zombie"
  /\ child' = "reaped"
  /\ waitCalls' = waitCalls + 1
  /\ waitResult' = childStatus
  /\ pcTimer' = "done"
  /\ UNCHANGED <<prog, max, pcMain, elapsed, childStatus, plan, written, pipe,
                 readerOpen, buf, chunks, drainEOF, readError, spawnCalls,
                 killCalls, killFailed, aliveAtD, exitBeforeD>>

\* println!("{:?}", child.wait()): blocks until the child has ended, reaps it
TimerWait ==
  /\ UNCHANGED asyncVars
  /\ prog = "wait_or_kill" /\ pcTimer = "wait"
  /\ child = "zombie"
  /\ child' = "reaped"
  /\ waitCalls' = waitCalls + 1
  /\ waitResult' = childStatus
  /\ pcTimer' = "done"
  /\ UNCHANGED <<prog, max, pcMain, elapsed, childStatus, plan, written, pipe,
                 readerOpen, buf, chunks, drainEOF, readError, spawnCalls,
                 killCalls, killFailed, aliveAtD, exitBeforeD>>

\* ---- child_process: sleep 5 s, kill, return -------------------------------
\* thread::sleep(Duration::from_secs(5)) returns
CPWake ==
  /\ UNCHANGED asyncVars
  /\ prog = "child_process" /\ pcMain = "sleep"
  /\ DeadlineElapsed
  /\ pcMain' = "kill"
  /\ UNCHANGED <<prog, max, pcTimer, elapsed, child, childStatus, plan, written,
                 pipe, readerOpen, buf, chunks, drainEOF, readError, spawnCalls,
                 killCalls, killFailed, waitCalls, waitResult, aliveAtD, exitBeforeD>>

\* child.kill().expect("!kill"); main returns, `child` is dropped unwaited
CPKill ==
  /\ UNCHANGED asyncVars
  /\ prog = "child_process" /\ pcMain = "kill"
  /\ \E ok \in BOOLEAN :
       /\ KillEffect(ok)
       /\ pcMain' = IF ok THEN "returned" ELSE "panicked"
  /\ UNCHANGED <<prog, max, pcTimer, elapsed, plan, written, pipe, readerOpen,
                 buf, chunks, drainEOF, readError, spawnCalls, waitCalls,
                 waitResult, aliveAtD, exitBeforeD>>

\* ---- call_thumbnailer_async: timeout(1 s, Command::output()).await ---------
\* Command::new(..).args(..).output(): stdout and stderr are piped and the
\* child is spawned; a spawn error is kept inside the future
AsyncSpawn ==
  /\ prog = "call_thumbnailer_async" /\ pcMain = "spawn"
  /\ spawnCalls' = spawnCalls + 1
  /\ \/ /\ \E n \in 0..MaxOut, e \in ExitCodes \cup {"never"} :
              plan' = [n |-> n, exit |-> e]
        /\ child' = "running"
     \/ UNCHANGED <<plan, child>>
  /\ pcMain' = "await"
  /\ UNCHANGED <<prog, max, pcTimer, elapsed, childStatus, written, pipe,
                 readerOpen, buf, chunks, drainEOF, readError, killCalls,
                 killFailed, waitCalls, waitResult, aliveAtD, exitBeforeD,
                 awaited, printed>>

\* the output future completes before the timeout is observed:
\* Ok(Ok(output)) once the child has ended and its pipes are read to the end
\* (the future has then reaped the child); Ok(Err(_)) on a spawn or I/O error.
\* Only Ok(Ok(output)) matches the `if let`: from_utf8(..).unwrap(), println!
AsyncOutput ==
  /\ prog = "call_thumbnailer_async" /\ pcMain = "await"
  /\ \/ /\ child = "zombie"
        /\ child' = "reaped"
        /\ waitCalls' = waitCalls + 1
        /\ waitResult' = childStatus
        /\ awaited' = "ok"
        /\ \E utf8 \in BOOLEAN :
              /\ printed' = utf8
              /\ pcMain' = IF utf8 THEN "returned" ELSE "panicked"
     \/ /\ awaited' = "err"
        /\ pcMain' = "returned"
        /\ UNCHANGED <<child, waitCalls, waitResult, printed>>
  /\ UNCHANGED <<prog, max, pcTimer, elapsed, childStatus, plan, written, pipe,
                 readerOpen, buf, chunks, drainEOF, readError, spawnCalls,
                 killCalls, killFailed, aliveAtD, exitBeforeD>>

\* variant of AsyncTimeout: the dropped future kills the child (kill_on_drop)
AsyncTimeout_KillOnDrop ==
  /\ prog = "call_thumbnailer_async" /\ pcMain = "await"
  /\ child # "none"
  /\ DeadlineElapsed
  /\ awaited' = "elapsed"
  /\ pcMain' = "returned"
  /\ KillEffect(TRUE)
  /\ UNCHANGED <<prog, max, pcTimer, elapsed, plan, written,
                 pipe, readerOpen, buf, chunks, drainEOF, readError, spawnCalls,
                 waitCalls, waitResult, aliveAtD, exitBeforeD, printed>>

\* the timeout elapses first: the await yields Err(Elapsed), the `if let` does
\* not match, the future is dropped (kill_on_drop is not set) and main returns
AsyncTimeout ==
  /\ prog = "call_thumbnailer_async" /\ pcMain = "await"
  /\ child # "none"
  /\ DeadlineElapsed
  /\ awaited' = "elapsed"
  /\ pcMain' = "returned"
  /\ UNCHANGED <<prog, max, pcTimer, elapsed, child, childStatus, plan, written,
                 pipe, readerOpen, buf, chunks, drainEOF, readError, spawnCalls,
                 killCalls, killFailed, waitCalls, waitResult, aliveAtD,
                 exitBeforeD, printed>>

\* ---- the child ------------------------------------------------------------
\* the child writes its next byte: into the pipe when there is room
\* (wait_or_kill), to the inherited stdout (child_process)
ChildWrite ==
  /\ UNCHANGED asyncVars
  /\ child = "running"
  /\ Len(written) < plan.n
  /\ IF Piped
       THEN /\ readerOpen
            /\ Len(pipe) < PipeCap
            /\ pipe' = Append(pipe, StreamByte(Len(written) + 1))
       ELSE UNCHANGED pipe
  /\ written' = Append(written, StreamByte(Len(written) + 1))
  /\ UNCHANGED <<prog, max, pcMain, pcTimer, elapsed, child, childStatus, plan,
                 readerOpen, buf, chunks, drainEOF, readError, spawnCalls,
                 killCalls, killFailed, waitCalls, waitResult, aliveAtD, exitBeforeD>>

\* the child writes after the read end was closed: it dies of SIGPIPE, or it
\* gets EPIPE and gives up writing
ChildWriteBroken ==
  /\ UNCHANGED asyncVars
  /\ child = "running" /\ Piped /\ ~readerOpen
  /\ Len(written) < plan.n
  /\ \/ /\ child' = "zombie"
        /\ childStatus' = "SIGPIPE"
        /\ exitBeforeD' = exitBeforeD
        /\ plan' = plan
     \/ /\ plan' = [plan EXCEPT !.n = Len(written)]
        /\ UNCHANGED <<child, childStatus, exitBeforeD>>
  /\ UNCHANGED <<prog, max, pcMain, pcTimer, elapsed, written, pipe, readerOpen,
                 buf, chunks, drainEOF, readError, spawnCalls, killCalls,
                 killFailed, waitCalls, waitResult, aliveAtD>>

\* the child has written everything and exits with its own exit code
ChildExit ==
  /\ UNCHANGED asyncVars
  /\ child = "running"
  /\ Len(written) = plan.n
  /\ plan.exit \in ExitCodes
  /\ child' = "zombie"
  /\ childStatus' = plan.exit
  /\ exitBeforeD' = ~DeadlineElapsed
  /\ UNCHANGED <<prog, max, pcMain, pcTimer, elapsed, plan, written, pipe,
                 readerOpen, buf, chunks, drainEOF, readError, spawnCalls,
                 killCalls, killFailed, waitCalls, waitResult, aliveAtD>>

Next ==
  \/ Spawn
  \/ StartTimer
  \/ DrainRead
  \/ DrainEOF
  \/ DrainError
  \/ MainJoin
  \/ Tick
  \/ TimerWake
  \/ TimerKill
  \/ TimerWait
  \/ CPWake
  \/ CPKill
  \/ AsyncSpawn
  \/ AsyncOutput
  \/ AsyncTimeout
  \/ ChildWrite
  \/ ChildWriteBroken
  \/ ChildExit

Spec == Init /\ [][Next]_vars

\* Scheduling: every thread of the program that can take a step eventually
\* takes it, and sleeping time passes.  Nothing is assumed of the child, and a
\* read is not assumed to fail.
Fairness ==
  /\ WF_vars(Spawn) /\ WF_vars(StartTimer)
  /\ WF_vars(DrainRead) /\ WF_vars(DrainEOF) /\ WF_vars(MainJoin)
  /\ WF_vars(Tick)
  /\ WF_vars(TimerWake) /\ WF_vars(TimerKill) /\ WF_vars(TimerWait)
  /\ WF_vars(CPWake) /\ WF_vars(CPKill)
  /\ WF_vars(AsyncSpawn) /\ WF_vars(AsyncOutput) /\ WF_vars(AsyncTimeout)

FairSpec == Spec /\ Fairness

TypeOK ==
  /\ prog \in Progs
  /\ max \in 0..(MaxDeadline + CPSleepSecs)
  /\ elapsed \in 0..max
  /\ child \in {"none", "running", "zombie", "reaped"}
  /\ Len(pipe) <= PipeCap
  /\ Len(written) <= plan.n
  /\ killCalls \in 0..1 /\ waitCalls \in 0..1 /\ spawnCalls \in 0..1

\* ==== properties ===========================================================

\* C1: a child of wait_or_kill that is still running when the deadline elapses
\* is no longer running when wait_or_kill returns, and the run went down the
\* kill path (timed_out).
C1_KilledAfterDeadline ==
  (prog = "wait_or_kill" /\ pcMain = "returned" /\ aliveAtD)
     => (child \in {"zombie", "reaped"} /\ timed_out)

C1_Witness ==
  /\ prog = "wait_or_kill" /\ pcMain = "returned" /\ aliveAtD
  /\ max > 0 /\ childStatus = "SIGKILL"

\* C2: a child that exits by itself before the deadline is not classified as
\* timed out, receives no kill, and wait() returns the child's own exit code.
C2_NoKillAfterEarlyExit ==
  (prog = "wait_or_kill" /\ pcMain = "returned" /\ exitBeforeD)
     => (~timed_out /\ killCalls = 0 /\ waitResult = plan.exit)

\* C3: the timer thread is never held up by the pipe or by the drain: its
\* sleep, wake-up and kill are enabled whatever the pipe holds; no state has
\* the child blocked on a full pipe with no reader able to run; and a child
\* that never exits is not running once the kill has been issued successfully.
C3_Deadlocked ==
  /\ ChildBlocked
  /\ ~ENABLED DrainRead
  /\ ~ENABLED StartTimer

C3_TimerNeverBlocked ==
  /\ (pcTimer = "sleep" /\ ~DeadlineElapsed) => ENABLED Tick
  /\ (pcTimer = "sleep" /\ DeadlineElapsed) => ENABLED TimerWake
  /\ (pcTimer = "kill") => ENABLED TimerKill
  /\ ~C3_Deadlocked
  /\ (prog = "wait_or_kill" /\ plan.exit = "never" /\ pcTimer \in {"wait", "done"})
        => child # "running"

C3_Witness ==
  /\ prog = "wait_or_kill" /\ plan.n > PipeCap /\ plan.exit = "never"
  /\ Len(written) >= PipeCap /\ Len(written) < plan.n
  /\ Len(pipe) = PipeCap
  /\ childStatus = "SIGKILL" /\ pcTimer = "wait"

\* C4: kill() is only called once the deadline has elapsed or after a read
\* error, and at most once per child.
C4_KillOnlyAfterDeadlineOnce ==
  [][killCalls' # killCalls
       => ((DeadlineElapsed \/ readError) /\ killCalls = 0 /\ killCalls' = 1)]_vars

C4_Witness ==
  /\ killCalls = 1 /\ max > 0 /\ elapsed = max /\ ~readError

\* C5: whenever the supervising call has ended (returned or panicked) with a
\* child spawned, the child has been reaped by wait() and the output channel
\* is closed.
C5_ReapedOnEveryExit ==
  (MainExited /\ child # "none")
     => (child = "reaped" /\ waitCalls = 1 /\ ~readerOpen)

\* C6: what the drain has captured is always a prefix of what the child wrote,
\* in order, nothing duplicated, fabricated or skipped; while the pipe is open,
\* captured bytes followed by the bytes in the pipe are exactly what was written.
C6_CapturedIsPrefix ==
  /\ IsPrefix(Captured, written)
  /\ IsPrefix(written, FullStream(MaxOut))
  /\ readerOpen => (Captured \o pipe = written)

C6_Witness ==
  /\ childStatus = "SIGKILL" /\ pcMain = "returned"
  /\ Len(chunks) >= 2 /\ Len(Captured) < plan.n /\ Len(chunks) < Len(Captured)

\* C7: once the drain has observed end-of-stream with no kill issued yet, no
\* kill is issued afterwards.
C7_NoKillAfterEOF ==
  [][(drainEOF /\ killCalls = 0) => killCalls' = 0]_vars

\* C8: after a failed spawn the caller has stopped at once: spawn was called
\* once, there is no child and no output channel, and drain, timer, kill and
\* wait never started.
C8_SpawnFailureStops ==
  (prog \in ThreadProgs /\ spawnCalls >= 1 /\ child = "none")
     => /\ pcMain = "panicked" /\ spawnCalls = 1
        /\ ~readerOpen /\ pcTimer = "none"
        /\ chunks = <<>> /\ ~drainEOF /\ ~readError
        /\ killCalls = 0 /\ waitCalls = 0 /\ elapsed = 0

C8_Witness ==
  /\ prog = "wait_or_kill" /\ spawnCalls = 1 /\ child = "none" /\ pcMain = "panicked"

\* C9: a failed kill() does not fail the supervision: the timer thread goes on
\* to wait() and the call does not end in a panic.
C9_KillFailureIgnored ==
  (prog = "wait_or_kill" /\ killFailed)
     => (pcTimer \in {"wait", "done"} /\ pcMain # "panicked")

\* C10: a run whose drain met a read error ends in the ReadFailed outcome, not
\* in the outcome of a normal end-of-stream.
C10_ReadErrorSurfaced ==
  (readError /\ MainExited) => outcome = "ReadFailed"

\* C11: a run of wait_or_kill starts in Running, leaves Running only for one
\* of Exited, Killed, SpawnFailed, ReadFailed, and never leaves a terminal state.
C11_RunStateMachine ==
  /\ runState = "Running"
  /\ [][prog = "wait_or_kill" =>
          /\ runState' \in {"Running"} \cup TerminalStates
          /\ runState # "Running" => runState' = runState]_vars

\* C12: under fair scheduling of the program's threads every run of
\* wait_or_kill eventually ends, whatever the child does.
C12_RunEnds ==
  (prog = "wait_or_kill") => <>MainExited

\* C13 (as claimed): wait() is never performed before the drain has finished.
C13_WaitAfterDrain ==
  (prog = "wait_or_kill" /\ waitCalls > 0) => DrainFinished

\* C13 (amended): on the kill path the timer thread sleeps the whole deadline,
\* then issues kill(), then - when kill() returned Ok - wait(), in that order
\* and without regard to the drain; wait_or_kill returns only after both the
\* drain has finished and wait() has been performed.
C13_KillThenWaitBesideDrain ==
  prog = "wait_or_kill" =>
    /\ killCalls > 0 => DeadlineElapsed
    /\ waitCalls > 0 => (killCalls = 1 /\ ~killFailed)
    /\ pcMain = "returned" => (DrainFinished /\ waitCalls = 1)

C13_Witness ==
  /\ prog = "wait_or_kill" /\ childStatus = "SIGKILL"
  /\ waitCalls = 1 /\ pcMain = "drain" /\ pipe # <<>>

\* C14: whenever wait_or_kill has returned, the timer thread has finished:
\* the whole deadline was slept, then one kill() and then one wait() were
\* performed, also when the drain saw end-of-stream before the deadline.
C14_ReturnOnlyAfterTimerThread ==
  /\ (prog = "wait_or_kill" /\ pcMain = "returned")
        => /\ pcTimer = "done" /\ elapsed = max
           /\ killCalls = 1 /\ waitCalls = 1
  /\ (prog = "wait_or_kill" /\ pcMain = "join" /\ drainEOF
        /\ pcTimer \in {"sleep", "kill", "wait"})
        => ~ENABLED MainJoin
  /\ (prog = "wait_or_kill" /\ pcTimer \in {"wait", "done"})
        => (elapsed = max /\ killCalls = 1)
  /\ (prog = "wait_or_kill" /\ pcTimer \in {"none", "sleep", "kill"})
        => waitCalls = 0

C14_Witness ==
  /\ prog = "wait_or_kill" /\ pcMain = "returned"
  /\ max > 0 /\ exitBeforeD /\ drainEOF
  /\ childStatus \in ExitCodes /\ waitResult = childStatus

\* C15: in call_thumbnailer_async, when the timeout elapses first nothing is
\* printed and the child is neither killed nor waited on; the output is printed
\* only when the await yielded Ok(Ok(output)), i.e. the child ended and was
\* collected before the timeout was observed.
C15_TimeoutDiscardsAndLeavesChild ==
  prog = "call_thumbnailer_async" =>
    /\ awaited = "elapsed"
         => (~printed /\ killCalls = 0 /\ waitCalls = 0 /\ elapsed = max
             /\ pcMain = "returned" /\ child \in {"running", "zombie"})
    /\ printed => (awaited = "ok" /\ child = "reaped" /\ waitCalls = 1)
    /\ killCalls = 0

C15_Witness ==
  /\ prog = "call_thumbnailer_async" /\ pcMain = "returned"
  /\ awaited = "elapsed" /\ child = "running" /\ ~printed

\* C16: once a read has returned Ok(0) or Err the loop of wait_on_output has
\* ended and the channel is dropped; every reported chunk holds between 1 and
\* BufSize bytes; the chunks in order are exactly the bytes taken from the pipe.
C16_DrainLoop ==
  /\ DrainFinished => (pcMain # "drain" /\ ~readerOpen)
  /\ \A i \in 1..Len(chunks) : Len(chunks[i]) \in 1..BufSize
  /\ Captured = SubSeq(written, 1, Len(Captured))
  /\ readerOpen => Len(Captured) + Len(pipe) = Len(written)

C16_Witness ==
  /\ readError /\ pcMain = "returned"
  /\ Len(chunks) >= 2
  /\ \E i \in 1..Len(chunks) : Len(chunks[i]) = BufSize
  /\ \E i \in 1..Len(chunks) : Len(chunks[i]) = 1
====
